---- MODULE Spec2Model ----
(***************************************************************************)
(* texar/losses/rewards.py: discounted reward.                             *)
(*                                                                         *)
(* One call of discount_reward, or of one of the four kernels it exports,  *)
(* on inputs drawn in Init.  Rewards are floating point numbers (dtype is  *)
(* left at None); a number is held exactly, as an integer count of         *)
(* 1/Scale, so that the powers of the discount that occur are exact.       *)
(* A rank-2 container is a sequence of rows, a row a sequence over time;   *)
(* time index t of the source (0-based) is position t+1 here.              *)
(***************************************************************************)
EXTENDS Integers, Sequences, FiniteSets, TLC

VARIABLES
    reward,             \* the caller's reward container: [ndim, v]
    sequence_length,    \* the caller's sequence_length container, or None
    rewardIsTensor,     \* is_tensor(reward)
    lengthIsTensor,     \* is_tensor(sequence_length)
    discount,           \* in units of 1/Scale
    normalize,
    tensor_rank,
    pc,                 \* "ready" before the call, "done" after it
    called,             \* the function that was called
    kernel,             \* the kernel the call entered, or "none"
    disc_reward,        \* what the call returned or raised
    reward_in,          \* the caller's containers as they were at the call
    sequence_length_in

vars == <<reward, sequence_length, rewardIsTensor, lengthIsTensor, discount,
          normalize, tensor_rank, pc, called, kernel, disc_reward,
          reward_in, sequence_length_in>>

-----------------------------------------------------------------------------
(* Bounds and numbers *)

\* largest batch size examined
MaxBatch == 3
\* largest number of cells (batch x time) of a reward or result examined
MaxCells == 6
\* 1 / (the tolerance within which a standard deviation counts as 1)
TolInv == 10000
\* 1 / 1e-8, the stabilizer added to the standard deviation
EpsInv == 100000000

\* Python's None (no container is empty, so the empty tuple is free)
None == <<>>

\* the unit: a number x is held as x * Scale
Scale == 2 ^ (MaxCells - 1)
R(n) == n * Scale
One == R(1)
Half == Scale \div 2
\* product of two held numbers (exact for every product the kernels form)
Mul(a, b) == (a * b) \div Scale

Max(S) == CHOOSE m \in S : \A x \in S : x <= m
Range(s) == {s[i] : i \in DOMAIN s}

RECURSIVE SumSeq(_)
SumSeq(s) == IF s = <<>> THEN 0 ELSE s[1] + SumSeq(Tail(s))

RECURSIVE Flatten(_)
Flatten(m) == IF m = <<>> THEN <<>> ELSE m[1] \o Flatten(Tail(m))

\* x[:, ::-1] and tf.reverse(x, [1])
ReverseRow(row) == [t \in 1..Len(row) |-> row[Len(row) + 1 - t]]
Reverse(m) == [r \in 1..Len(m) |-> ReverseRow(m[r])]
\* tf.transpose(x, [1, 0]) of a batch x time container with at least one row
Transpose(m) == [t \in 1..Len(m[1]) |-> [r \in 1..Len(m) |-> m[r][t]]]

\* np.cumsum(row), np.cumprod(row): forward running sum and product
RECURSIVE CumsumRow(_)
CumsumRow(row) ==
    IF Len(row) <= 1 THEN row
    ELSE LET head == CumsumRow(SubSeq(row, 1, Len(row) - 1))
         IN  Append(head, head[Len(head)] + row[Len(row)])
RECURSIVE CumprodRow(_)
CumprodRow(row) ==
    IF Len(row) <= 1 THEN row
    ELSE LET head == CumprodRow(SubSeq(row, 1, Len(row) - 1))
         IN  Append(head, Mul(head[Len(head)], row[Len(row)]))
\* tf.cumsum(row, reverse=True), tf.cumprod(row, reverse=True)
RECURSIVE RevCumsumRow(_)
RevCumsumRow(row) ==
    IF Len(row) <= 1 THEN row
    ELSE LET tail == RevCumsumRow(Tail(row))
         IN  <<row[1] + tail[1]>> \o tail
RECURSIVE RevCumprodRow(_)
RevCumprodRow(row) ==
    IF Len(row) <= 1 THEN row
    ELSE LET tail == RevCumprodRow(Tail(row))
         IN  <<Mul(row[1], tail[1])>> \o tail

\* texar.utils.shapes.mask_sequences on a batch x time container: zero every
\* entry at or beyond the row's length
mask_sequences(sequence, lengths) ==
    [r \in 1..Len(sequence) |->
        [t \in 1..Len(sequence[r]) |->
            IF t - 1 < lengths[r] THEN sequence[r][t] ELSE 0]]

\* what a call produces: a value, or the error it raised.  "missing_length" and
\* "invalid_rank" are the two ValueErrors of the module; "index_error" is an
\* index out of range; "rank_mismatch" is a deferred kernel given a reward of
\* another rank than its own, where TensorFlow raises a shape error or yields a
\* container of the wrong shape.
\* norm.n = 0: the value is held as it is, not as Normalize holds it
NoNorm == [n |-> 0, ss |-> 0]
Ok(v) == [status |-> "ok", value |-> v, norm |-> NoNorm]
Raise(e) == [status |-> e, value |-> None, norm |-> NoNorm]

-----------------------------------------------------------------------------
(* The kernels *)

\* Py1dDmat with the mask taken as steps < sequence_length
Py1dDmatMaskToLength(batch_size, max_seq_length, lengths, disc) ==
    IF disc = One
    THEN [r \in 1..batch_size |-> [t \in 1..max_seq_length |-> One]]
    ELSE LET dmat == [r \in 1..batch_size |-> [t \in 1..max_seq_length |->
                         IF t - 1 < lengths[r] THEN disc ELSE One]]
         IN  [r \in 1..batch_size |-> ReverseRow(CumprodRow(ReverseRow(dmat[r])))]

\* the rows [discount, ..., discount, 1, ..., 1] of the eager 1D kernel
Py1dDmat(batch_size, max_seq_length, lengths, disc) ==
    IF disc = One
    THEN [r \in 1..batch_size |-> [t \in 1..max_seq_length |-> One]]
    ELSE LET steps == [r \in 1..batch_size |-> [t \in 1..max_seq_length |-> t - 1]]
             mask == [r \in 1..batch_size |-> [t \in 1..max_seq_length |->
                         IF steps[r][t] < lengths[r] - 1 THEN One ELSE 0]]
             dmat == [r \in 1..batch_size |-> [t \in 1..max_seq_length |->
                         Mul(mask[r][t], disc) + (One - mask[r][t])]]
         IN  [r \in 1..batch_size |-> ReverseRow(CumprodRow(ReverseRow(dmat[r])))]

_discount_reward_py_1d(rw, lengths, disc) ==
    IF lengths = None THEN Raise("missing_length")
    ELSE LET batch_size == Len(rw)
             max_seq_length == Max(Range(lengths))
             dmat == Py1dDmat(batch_size, max_seq_length, lengths, disc)
             prod == [r \in 1..batch_size |-> [t \in 1..max_seq_length |->
                         Mul(dmat[r][t], rw[r])]]
         IN  Ok(mask_sequences(prod, lengths))

\* tf.sequence_mask(sequence_length, dtype): width max(sequence_length)
sequence_mask(lengths) ==
    [r \in 1..Len(lengths) |-> [t \in 1..Max(Range(lengths)) |->
        IF t - 1 < lengths[r] THEN One ELSE 0]]

Tensor1dDmat(batch_size, max_seq_length, lengths, disc) ==
    IF disc = One
    THEN [r \in 1..batch_size |-> [t \in 1..max_seq_length |-> One]]
    ELSE LET mask0 == sequence_mask(lengths)
             \* tf.concat([mask[:, 1:], tf.zeros_like(mask[:, -1:])], axis=1)
             mask == [r \in 1..Len(mask0) |-> Tail(mask0[r]) \o <<0>>]
             dmat == [r \in 1..Len(mask) |-> [t \in 1..Len(mask[r]) |->
                         Mul(mask[r][t], disc) + (One - mask[r][t])]]
         IN  [r \in 1..Len(dmat) |-> RevCumprodRow(dmat[r])]

\* _discount_reward_tensor_1d looking at the reward before sequence_length
Tensor1dRewardFirst(rw, ndim, lengths, disc) ==
    IF ndim # 1 THEN Raise("rank_mismatch")
    ELSE IF lengths = None THEN Raise("missing_length")
    ELSE LET dmat == Tensor1dDmat(Len(rw), Max(Range(lengths)), lengths, disc)
             prod == [r \in 1..Len(rw) |-> [t \in 1..Len(dmat[r]) |->
                         Mul(dmat[r][t], rw[r])]]
         IN  Ok(mask_sequences(prod, lengths))

_discount_reward_tensor_1d(rw, ndim, lengths, disc) ==
    IF lengths = None THEN Raise("missing_length")
    ELSE IF ndim # 1 THEN Raise("rank_mismatch")
    ELSE LET batch_size == Len(rw)
             max_seq_length == Max(Range(lengths))
             dmat == Tensor1dDmat(batch_size, max_seq_length, lengths, disc)
             prod == [r \in 1..batch_size |-> [t \in 1..Len(dmat[r]) |->
                         Mul(dmat[r][t], rw[r])]]
         IN  Ok(mask_sequences(prod, lengths))

\* Py2dLoop adding the next column undiscounted
RECURSIVE Py2dLoopUndiscounted(_, _, _)
Py2dLoopUndiscounted(d, i, disc) ==
    IF i < 0 THEN d
    ELSE Py2dLoopUndiscounted(
            [r \in 1..Len(d) |-> [d[r] EXCEPT ![i + 1] = d[r][i + 1] + d[r][i + 2]]],
            i - 1, disc)

\* for i in range(reward.shape[1]-2, -1, -1):
\*     disc_reward[:, i] += disc_reward[:, i+1] * discount
\* i is the 0-based column; the columns are positions i+1 and i+2 here
RECURSIVE Py2dLoop(_, _, _)
Py2dLoop(d, i, disc) ==
    IF i < 0 THEN d
    ELSE Py2dLoop([r \in 1..Len(d) |->
                      [d[r] EXCEPT ![i + 1] = d[r][i + 1] + Mul(d[r][i + 2], disc)]],
                  i - 1, disc)

\* np_copy handing back the array itself
np_alias(a) == [array |-> a, alias |-> TRUE]

\* np.copy(a), np.array(a): a new array holding a's content
np_copy(a) == [array |-> a, alias |-> FALSE]
np_array(a) == [array |-> a, alias |-> FALSE]

\* _discount_reward_py_2d with the running sum taken forward in time
Py2dForwardCumsum(rw, lengths, disc) ==
    LET masked == IF lengths # None THEN mask_sequences(rw, lengths) ELSE rw
    IN  IF disc = One
        THEN [out |-> Ok([r \in 1..Len(masked) |-> CumsumRow(masked[r])]),
              arg |-> rw]
        ELSE [out |-> Ok(Py2dLoop(masked, Len(masked[1]) - 2, disc)), arg |-> rw]

\* _discount_reward_py_2d masking what it returns, not what it discounts
Py2dMaskAfter(rw, lengths, disc) ==
    LET res == IF disc = One
               THEN Reverse([r \in 1..Len(rw) |-> CumsumRow(ReverseRow(rw[r]))])
               ELSE Py2dLoop(rw, Len(rw[1]) - 2, disc)
    IN  [out |-> Ok(IF lengths # None THEN mask_sequences(res, lengths) ELSE res),
         arg |-> rw]

\* returns the result and the final content of the array that was passed in
_discount_reward_py_2d(rw, lengths, disc) ==
    LET masked == IF lengths # None THEN mask_sequences(rw, lengths) ELSE rw
        fresh == lengths # None
    IN  IF disc = One
        THEN [out |-> Ok(Reverse([r \in 1..Len(masked) |->
                                     CumsumRow(ReverseRow(masked[r]))])),
              arg |-> rw]
        ELSE LET acc == np_copy(masked)
                 res == Py2dLoop(acc.array, Len(masked[1]) - 2, disc)
             IN  [out |-> Ok(res),
                  arg |-> IF acc.alias /\ ~fresh THEN res ELSE rw]

\* tf.scan(fn=lambda acc, cur: cur + discount * acc, elems, initializer)
RECURSIVE Scan(_, _, _)
Scan(elems, acc, disc) ==
    IF elems = <<>> THEN <<>>
    ELSE LET nxt == [r \in 1..Len(acc) |-> elems[1][r] + Mul(disc, acc[r])]
         IN  <<nxt>> \o Scan(Tail(elems), nxt, disc)

\* tf.zeros_like(reward[:, 1]): column 1 (0-based) must exist
Tensor2dInitializer(rw) ==
    IF Len(rw[1]) < 2 THEN None ELSE [r \in 1..Len(rw) |-> 0]

_discount_reward_tensor_2d(rw, ndim, lengths, disc) ==
    LET masked == IF lengths # None THEN mask_sequences(rw, lengths) ELSE rw
    IN  IF ndim # 2 THEN Raise("rank_mismatch")
        ELSE IF disc = One
        THEN Ok([r \in 1..Len(masked) |-> RevCumsumRow(masked[r])])
        ELSE LET rev_reward_T == Transpose(Reverse(masked))
                 initializer == Tensor2dInitializer(masked)
             IN  IF initializer = None THEN Raise("index_error")
                 ELSE Ok(Reverse(Transpose(Scan(rev_reward_T, initializer, disc))))

-----------------------------------------------------------------------------
(* Normalization *)

\* Moments with the mean taken along each row (n * mean = batch * row sum)
MomentsPerRow(x) ==
    LET n == Len(Flatten(x))
        dev == [r \in 1..Len(x) |-> [t \in 1..Len(x[r]) |->
                   n * x[r][t] - Len(x) * SumSeq(x[r])]]
        flatdev == Flatten(dev)
    IN  [n |-> n, dev |-> dev,
         ss |-> SumSeq([i \in 1..Len(flatdev) |-> flatdev[i] * flatdev[i]])]

\* the moments of a batch x time container x, reduced over all its entries:
\*   n the number of entries, dev[r][t] = n * (x[r][t] - mean),
\*   ss = the sum of dev^2, so that variance = ss / (n^3 * Scale^2)
Moments(x) ==
    LET flat == Flatten(x)
        n == Len(flat)
        total == SumSeq(flat)
        dev == [r \in 1..Len(x) |-> [t \in 1..Len(x[r]) |-> n * x[r][t] - total]]
        flatdev == Flatten(dev)
    IN  [n |-> n, dev |-> dev,
         ss |-> SumSeq([i \in 1..Len(flatdev) |-> flatdev[i] * flatdev[i]])]

\* (disc_reward - mu) / (std + 1e-8).  The square root is not taken: the result
\* is held as value = dev and norm = [n, ss], and stands for
\*   value[r][t] / (n * Scale) / (sqrt(ss / (n^3 * Scale^2)) + 1 / EpsInv)
NormalizePy(x) ==
    LET m == Moments(x)
    IN  [status |-> "ok", value |-> m.dev, norm |-> [n |-> m.n, ss |-> m.ss]]
NormalizeTensor(x) ==
    LET m == Moments(x)
    IN  [status |-> "ok", value |-> m.dev, norm |-> [n |-> m.n, ss |-> m.ss]]

-----------------------------------------------------------------------------
(* The dispatcher *)

is_tensor(isT) == isT

\* discount_reward sending every tensor_rank other than 1 to the 2D kernel
DiscountRewardElse2D(rw, rwT, lengths, lenT, disc, norm, trank) ==
    IF is_tensor(rwT) \/ is_tensor(lenT)
    THEN LET out == IF trank = 1
                    THEN _discount_reward_tensor_1d(rw.v, rw.ndim, lengths, disc)
                    ELSE _discount_reward_tensor_2d(rw.v, rw.ndim, lengths, disc)
         IN  [out |-> IF norm /\ out.status = "ok"
                      THEN NormalizeTensor(out.value) ELSE out,
              kernel |-> IF trank = 1 THEN "_discount_reward_tensor_1d"
                         ELSE "_discount_reward_tensor_2d",
              arg |-> rw.v]
    ELSE LET res == IF rw.ndim = 1
                    THEN [out |-> _discount_reward_py_1d(rw.v, lengths, disc),
                          arg |-> rw.v]
                    ELSE IF rw.ndim = 2
                    THEN _discount_reward_py_2d(rw.v, lengths, disc)
                    ELSE [out |-> Raise("invalid_rank"), arg |-> rw.v]
         IN  [out |-> IF norm /\ res.out.status = "ok"
                      THEN NormalizePy(res.out.value) ELSE res.out,
              kernel |-> IF rw.ndim = 1 THEN "_discount_reward_py_1d"
                         ELSE IF rw.ndim = 2 THEN "_discount_reward_py_2d"
                         ELSE "none",
              arg |-> rw.v]

\* returns the outcome, the kernel entered and the final content of the
\* caller's reward container
discount_reward(rw, rwT, lengths, lenT, disc, norm, trank) ==
    IF is_tensor(rwT) \/ is_tensor(lenT)
    THEN LET out == IF trank = 1
                    THEN _discount_reward_tensor_1d(rw.v, rw.ndim, lengths, disc)
                    ELSE IF trank = 2
                    THEN _discount_reward_tensor_2d(rw.v, rw.ndim, lengths, disc)
                    ELSE Raise("invalid_rank")
         IN  [out |-> IF norm /\ out.status = "ok"
                      THEN NormalizeTensor(out.value) ELSE out,
              kernel |-> IF trank = 1 THEN "_discount_reward_tensor_1d"
                         ELSE IF trank = 2 THEN "_discount_reward_tensor_2d"
                         ELSE "none",
              arg |-> rw.v]
    ELSE LET local == np_array(rw.v)
             rank == rw.ndim
             res == IF rank = 1
                    THEN [out |-> _discount_reward_py_1d(local.array, lengths, disc),
                          arg |-> local.array]
                    ELSE IF rank = 2
                    THEN _discount_reward_py_2d(local.array, lengths, disc)
                    ELSE [out |-> Raise("invalid_rank"), arg |-> local.array]
         IN  [out |-> IF norm /\ res.out.status = "ok"
                      THEN NormalizePy(res.out.value) ELSE res.out,
              kernel |-> IF rank = 1 THEN "_discount_reward_py_1d"
                         ELSE IF rank = 2 THEN "_discount_reward_py_2d"
                         ELSE "none",
              arg |-> IF local.alias THEN res.arg ELSE rw.v]

-----------------------------------------------------------------------------
(* Inputs *)

RewardValues == {R(0), R(1)}
Discounts == {Half, One}
TensorRanks == 0..3

Shapes == {s \in (1..MaxBatch) \X (1..MaxCells) : s[1] * s[2] <= MaxCells}

Rewards2D == UNION {[1..s[1] -> [1..s[2] -> RewardValues]] : s \in Shapes}
Lengths2D(m) == {None} \cup [1..Len(m) -> 0..Len(m[1])]
Rewards1D == UNION {[1..b -> RewardValues] : b \in 1..MaxBatch}
Lengths1D(rw) ==
    {None} \cup {l \in [1..Len(rw) -> 0..MaxCells] :
                    /\ Max(Range(l)) >= 1
                    /\ Len(rw) * Max(Range(l)) <= MaxCells}

Input(nd, v, l) == [reward |-> [ndim |-> nd, v |-> v], sequence_length |-> l]

\* Scenarios A-D of the documentation are among the inputs
Inputs1D ==
    (UNION {{Input(1, rw, l) : l \in Lengths1D(rw)} : rw \in Rewards1D})
    \cup {Input(1, <<R(1), R(2)>>, <<3, 2>>), Input(1, <<R(1)>>, <<3>>)}
Inputs2D ==
    (UNION {{Input(2, m, l) : l \in Lengths2D(m)} : m \in Rewards2D})
    \cup {Input(2, <<<<R(1), R(2), R(3)>>>>, None)}

\* one reward of each rank 0..3, for the dispatch on rank (the rank-0 reward
\* is held as the tuple of its one number)
DispatchReward(nd) ==
    CASE nd = 0 -> <<R(1)>>
      [] nd = 1 -> <<R(1)>>
      [] nd = 2 -> <<<<R(1), R(1)>>>>
      [] nd = 3 -> <<<<<<R(1)>>>>>>
DispatchInputs(nd) == {Input(nd, DispatchReward(nd), l) : l \in {None, <<1>>}}

InitData(S) ==
    \E in \in S :
        /\ reward = in.reward
        /\ sequence_length = in.sequence_length

InitCall ==
    /\ pc = "ready"
    /\ called = "none"
    /\ kernel = "none"
    /\ disc_reward = Raise("not_called")
    /\ reward_in = reward
    /\ sequence_length_in = sequence_length

\* well-formed calls: tensor_rank is the reward's rank
InitNumeric ==
    /\ (InitData(Inputs1D) \/ InitData(Inputs2D))
    /\ \E deferred \in BOOLEAN :
          /\ rewardIsTensor = deferred
          /\ lengthIsTensor = (deferred /\ sequence_length # None)
          /\ tensor_rank = IF deferred THEN reward.ndim ELSE 1
    /\ discount \in Discounts
    /\ normalize \in BOOLEAN
    /\ InitCall

\* every combination of mode and tensor_rank
InitDispatch ==
    /\ \E nd \in TensorRanks : InitData(DispatchInputs(nd))
    /\ rewardIsTensor \in BOOLEAN
    /\ lengthIsTensor \in (IF sequence_length = None THEN {FALSE} ELSE BOOLEAN)
    /\ tensor_rank \in TensorRanks
    /\ discount \in Discounts
    /\ normalize \in BOOLEAN
    /\ InitCall

Init == InitNumeric \/ InitDispatch

-----------------------------------------------------------------------------
(* Calls *)

Eager == ~rewardIsTensor /\ ~lengthIsTensor

Return(fn, k, out, arg) ==
    /\ pc' = "done"
    /\ called' = fn
    /\ kernel' = k
    /\ disc_reward' = out
    /\ reward' = [reward EXCEPT !.v = arg]
    /\ reward_in' = reward
    /\ sequence_length_in' = sequence_length
    /\ UNCHANGED <<sequence_length, rewardIsTensor, lengthIsTensor, discount,
                   normalize, tensor_rank>>

DiscountReward ==
    /\ pc = "ready"
    /\ LET res == discount_reward(reward, rewardIsTensor, sequence_length,
                                  lengthIsTensor, discount, normalize, tensor_rank)
       IN  Return("discount_reward", res.kernel, res.out, res.arg)

\* the kernels are exported and can be called on their own, the eager ones on
\* arrays and the deferred ones on tensors of the kernel's rank
DiscountRewardPy1d ==
    /\ pc = "ready" /\ Eager /\ reward.ndim = 1
    /\ Return("_discount_reward_py_1d", "_discount_reward_py_1d",
              _discount_reward_py_1d(np_array(reward.v).array, sequence_length,
                                     discount),
              reward.v)

DiscountRewardTensor1d ==
    /\ pc = "ready" /\ ~Eager /\ reward.ndim = 1
    /\ Return("_discount_reward_tensor_1d", "_discount_reward_tensor_1d",
              _discount_reward_tensor_1d(reward.v, reward.ndim, sequence_length,
                                         discount),
              reward.v)

DiscountRewardPy2d ==
    /\ pc = "ready" /\ Eager /\ reward.ndim = 2
    /\ LET res == _discount_reward_py_2d(reward.v, sequence_length, discount)
       IN  Return("_discount_reward_py_2d", "_discount_reward_py_2d",
                  res.out, res.arg)

DiscountRewardTensor2d ==
    /\ pc = "ready" /\ ~Eager /\ reward.ndim = 2
    /\ Return("_discount_reward_tensor_2d", "_discount_reward_tensor_2d",
              _discount_reward_tensor_2d(reward.v, reward.ndim, sequence_length,
                                         discount),
              reward.v)

Next ==
    \/ DiscountReward
    \/ DiscountRewardPy1d
    \/ DiscountRewardTensor1d
    \/ DiscountRewardPy2d
    \/ DiscountRewardTensor2d

Spec == Init /\ [][Next]_vars

-----------------------------------------------------------------------------
(* What the claims speak of *)

Done == pc = "done"
Deferred == rewardIsTensor \/ lengthIsTensor
Status == disc_reward.status
\* the call returned a container that was not normalized
Plain == Done /\ Status = "ok" /\ disc_reward.norm.n = 0
Normalized == Done /\ Status = "ok" /\ disc_reward.norm.n > 0
Kernel1D == kernel \in {"_discount_reward_py_1d", "_discount_reward_tensor_1d"}
Kernel2D == kernel \in {"_discount_reward_py_2d", "_discount_reward_tensor_2d"}

\* time index t (0-based) of row r is padding
Padded(r, t) == sequence_length_in # None /\ t >= sequence_length_in[r]

\* the reward with the entries at or beyond each row's length zeroed
MaskedReward ==
    [r \in 1..Len(reward_in.v) |-> [t \in 1..Len(reward_in.v[r]) |->
        IF Padded(r, t - 1) THEN 0 ELSE reward_in.v[r][t]]]

\* x * d^k
RECURSIVE TimesPow(_, _, _)
TimesPow(x, d, k) == IF k = 0 THEN x ELSE TimesPow(Mul(x, d), d, k - 1)

\* the sum of row[t], ..., row[Len(row)]
SumFrom(row, t) == SumSeq(SubSeq(row, t, Len(row)))

-----------------------------------------------------------------------------
(* C1: masking invariant *)

\* C1: in every container discount_reward returns, whether normalize is set or
\* not, each entry at a time index at or beyond its row's sequence_length is
\* exactly zero.  (A normalized entry is zero exactly when its held value is.)
C1_MaskingEveryOutput ==
    (Done /\ called = "discount_reward" /\ Status = "ok"
          /\ sequence_length_in # None)
    => \A r \in 1..Len(disc_reward.value) :
         \A t \in 1..Len(disc_reward.value[r]) :
            Padded(r, t - 1) => disc_reward.value[r][t] = 0

\* The same for the containers that were not normalized, from discount_reward
\* or from a kernel called on its own: this holds.
MaskingPlainOutput ==
    (Plain /\ sequence_length_in # None)
    => \A r \in 1..Len(disc_reward.value) :
         \A t \in 1..Len(disc_reward.value[r]) :
            Padded(r, t - 1) => disc_reward.value[r][t] = 0

-----------------------------------------------------------------------------
(* C2: mode equivalence *)

\* the outcome of the same call made in the other mode, tensor_rank being the
\* reward's rank
OtherMode ==
    discount_reward(reward_in, ~Deferred, sequence_length_in,
                    ~Deferred /\ sequence_length_in # None,
                    discount, normalize, reward_in.ndim).out

\* C2: discount_reward on a rank-1 or rank-2 reward, with tensor_rank the
\* reward's rank, produces in eager mode what it produces in deferred mode on
\* the same inputs, for every batch size and every time width.
C2_ModeEquivalence ==
    (Done /\ called = "discount_reward" /\ reward_in.ndim \in {1, 2}
          /\ (Deferred => tensor_rank = reward_in.ndim))
    => disc_reward = OtherMode

\* The same away from the rank-2 reward of one time step with discount # 1:
\* this holds.
ModeEquivalenceWiderThanOne ==
    (Done /\ called = "discount_reward" /\ reward_in.ndim \in {1, 2}
          /\ (Deferred => tensor_rank = reward_in.ndim)
          /\ ~(reward_in.ndim = 2 /\ Len(reward_in.v[1]) = 1 /\ discount # One))
    => disc_reward = OtherMode

-----------------------------------------------------------------------------
(* C3: the 1D kernel *)

\* C3: a 1D kernel given a rank-1 reward and sequence_length returns one row
\* per batch row and max(sequence_length) columns, with
\* output(r, t) = reward(r) * discount^(L-1-t) for t < L and 0 for t >= L,
\* L the row's length, for discount = 1 as for discount # 1.
C3_Kernel1DResult ==
    (Done /\ Kernel1D /\ reward_in.ndim = 1 /\ sequence_length_in # None
          /\ ~(called = "discount_reward" /\ normalize))
    => /\ Plain
       /\ Len(disc_reward.value) = Len(reward_in.v)
       /\ \A r \in 1..Len(reward_in.v) :
            /\ Len(disc_reward.value[r]) = Max(Range(sequence_length_in))
            /\ \A t \in 0..(Max(Range(sequence_length_in)) - 1) :
                 disc_reward.value[r][t + 1] =
                    IF t < sequence_length_in[r]
                    THEN TimesPow(reward_in.v[r], discount,
                                  sequence_length_in[r] - 1 - t)
                    ELSE 0

\* Scenario B: reward=[1.0], sequence_length=[3], discount=0.5 gives
\* [0.25, 0.5, 1.0]
C3_Witness ==
    /\ Done /\ called = "_discount_reward_py_1d"
    /\ reward_in.v = <<R(1)>> /\ sequence_length_in = <<3>> /\ discount = Half
    /\ disc_reward.value = <<<<Scale \div 4, Scale \div 2, Scale>>>>

-----------------------------------------------------------------------------
(* C4: the 2D kernel, general path *)

-----------------------------------------------------------------------------
(* C5: the 2D kernel, fast path *)

\* C5: a 2D kernel given a rank-2 reward and discount = 1 returns
\* output(row, t) = the sum of the masked reward(row, t') over t' >= t, which
\* is what the backward recurrence of the general path yields at discount 1.
C5_Kernel2DFastPath ==
    (Done /\ Kernel2D /\ reward_in.ndim = 2 /\ discount = One
          /\ ~(called = "discount_reward" /\ normalize))
    => LET out == disc_reward.value
           width == Len(reward_in.v[1])
       IN  /\ Plain
           /\ Len(out) = Len(reward_in.v)
           /\ \A r \in 1..Len(out) :
                /\ Len(out[r]) = width
                /\ \A t \in 1..width : out[r][t] = SumFrom(MaskedReward[r], t)
                /\ out[r][width] = MaskedReward[r][width]
                /\ \A t \in 1..(width - 1) :
                     out[r][t] = MaskedReward[r][t] + Mul(One, out[r][t + 1])

\* Scenario C: reward=[[1,2,3]], discount=1 gives [[6,5,3]]
C5_Witness ==
    /\ Done /\ called = "_discount_reward_tensor_2d"
    /\ reward_in.v = <<<<R(1), R(2), R(3)>>>> /\ sequence_length_in = None
    /\ discount = One
    /\ disc_reward.value = <<<<R(6), R(5), R(3)>>>>

-----------------------------------------------------------------------------
(* C6: invalid-rank error *)

\* C6: discount_reward raises the invalid-rank error, in deferred mode exactly
\* when tensor_rank is not 1 or 2 (tensor_rank alone choosing the kernel), in
\* eager mode exactly when the reward's own rank is not 1 or 2 (whatever
\* tensor_rank is); it is raised before a kernel is entered, and nothing is
\* returned.
C6_InvalidRank ==
    (Done /\ called = "discount_reward")
    => /\ Status = "invalid_rank"
            <=> IF Deferred THEN tensor_rank \notin {1, 2}
                            ELSE reward_in.ndim \notin {1, 2}
       /\ Deferred /\ tensor_rank = 1 => kernel = "_discount_reward_tensor_1d"
       /\ Deferred /\ tensor_rank = 2 => kernel = "_discount_reward_tensor_2d"
       /\ ~Deferred /\ reward_in.ndim = 1 => kernel = "_discount_reward_py_1d"
       /\ ~Deferred /\ reward_in.ndim = 2 => kernel = "_discount_reward_py_2d"
       /\ Status = "invalid_rank" => kernel = "none" /\ disc_reward.value = None

\* a rank-1 tensor with tensor_rank = 3, and a rank-3 array with tensor_rank
\* left at 1, both refused
C6_Witness ==
    /\ Done /\ called = "discount_reward" /\ Status = "invalid_rank"
    /\ \/ Deferred /\ reward_in.ndim = 1 /\ tensor_rank = 3
       \/ ~Deferred /\ reward_in.ndim = 3 /\ tensor_rank = 1

-----------------------------------------------------------------------------
(* C7: missing-length error *)

\* C7: discount_reward on a rank-1 reward without sequence_length raises the
\* missing-length error in either mode and for every tensor_rank, and on a
\* rank-2 reward without sequence_length never raises it.
C7_MissingLengthByRank ==
    (Done /\ called = "discount_reward" /\ sequence_length_in = None)
    => /\ reward_in.ndim = 1 => Status = "missing_length"
       /\ reward_in.ndim = 2 => Status # "missing_length"

\* C7 as amended: the missing-length error is raised exactly when
\* sequence_length is missing and the 1D kernel is the one chosen: in eager
\* mode by the reward's own rank being 1 (whatever tensor_rank is), in deferred
\* mode by tensor_rank being 1 (whatever the reward's rank is).  Nothing is
\* returned with it.
C7_MissingLengthByKernel ==
    (Done /\ called = "discount_reward")
    => /\ Status = "missing_length"
            <=> /\ sequence_length_in = None
                /\ IF Deferred THEN tensor_rank = 1 ELSE reward_in.ndim = 1
       /\ Status = "missing_length" => disc_reward.value = None

\* a rank-2 tensor passed with tensor_rank left at 1 and no sequence_length
C7_Witness ==
    /\ Done /\ called = "discount_reward" /\ Deferred
    /\ reward_in.ndim = 2 /\ tensor_rank = 1 /\ sequence_length_in = None
    /\ Status = "missing_length"

-----------------------------------------------------------------------------
(* C8: normalization *)

\* what the kernel returned to discount_reward, before normalization
KernelOutput ==
    discount_reward(reward_in, rewardIsTensor, sequence_length_in,
                    lengthIsTensor, discount, FALSE, tensor_rank).out.value

AllEqual(flat) == \A i, j \in 1..Len(flat) : flat[i] = flat[j]

\* The normalized container has standard deviation sigma / (sigma + 1e-8),
\* sigma^2 = ss / (n^3 * Scale^2) being the variance of the kernel's output.
\* This is within 1/TolInv of 1 when sigma >= TolInv * 1e-8, and is 0 when
\* sigma = 0.
StdNearOne(norm) ==
    /\ norm.ss > 0
    /\ (norm.n ^ 3 * Scale ^ 2) \div norm.ss < (EpsInv \div TolInv) ^ 2

\* the normalized container is the kernel's output minus its mean over all
\* entries, over (its standard deviation over all entries + 1e-8)
GlobalStandardization ==
    LET x == KernelOutput
        flat == Flatten(x)
        n == Len(flat)
        total == SumSeq(flat)
    IN  /\ disc_reward.norm.n = n
        /\ Len(disc_reward.value) = Len(x)
        /\ \A r \in 1..Len(x) :
             /\ Len(disc_reward.value[r]) = Len(x[r])
             /\ \A t \in 1..Len(x[r]) :
                  disc_reward.value[r][t] = n * x[r][t] - total
        /\ disc_reward.norm.ss =
              SumSeq([i \in 1..n |-> (n * flat[i] - total) * (n * flat[i] - total)])

MeanZero == SumSeq(Flatten(disc_reward.value)) = 0

\* C8: with normalize set, what discount_reward returns is the kernel's output
\* standardized by its global mean and global standard deviation + 1e-8, and
\* has mean 0 and standard deviation 1 (within tolerance) whatever the
\* kernel's output is.
C8_NormalizedUnitStd ==
    (Done /\ called = "discount_reward" /\ normalize /\ Status = "ok")
    => /\ GlobalStandardization
       /\ MeanZero
       /\ StdNearOne(disc_reward.norm)

\* C8 as amended: ... and has mean 0 and standard deviation
\* sigma / (sigma + 1e-8), sigma the standard deviation of the kernel's output:
\* 1 within tolerance when the entries differ (by far more than 1e-8, as all
\* here do); when all entries are equal the result is zero everywhere and its
\* standard deviation is 0.
C8_NormalizedUnlessConstant ==
    (Done /\ called = "discount_reward" /\ normalize /\ Status = "ok")
    => /\ GlobalStandardization
       /\ MeanZero
       /\ IF AllEqual(Flatten(KernelOutput))
          THEN /\ disc_reward.norm.ss = 0
               /\ \A r \in 1..Len(disc_reward.value) :
                    \A t \in 1..Len(disc_reward.value[r]) :
                       disc_reward.value[r][t] = 0
          ELSE StdNearOne(disc_reward.norm)

\* a kernel output of several equal, nonzero entries, normalized
C8_Witness ==
    /\ Done /\ called = "discount_reward" /\ normalize /\ Status = "ok"
    /\ Len(Flatten(KernelOutput)) > 1
    /\ AllEqual(Flatten(KernelOutput))
    /\ KernelOutput[1][1] # 0
    /\ disc_reward.norm.ss = 0

-----------------------------------------------------------------------------
(* C9: padded reward does not leak *)

\* m agrees with the reward at every position before the row's length
AgreesOnValid(m) ==
    \A r \in 1..Len(m) : \A t \in 1..Len(m[r]) :
        ~Padded(r, t - 1) => m[r][t] = reward_in.v[r][t]

\* the call that was made, made on the reward m instead
SameCallOn(m) ==
    CASE called = "discount_reward" ->
            discount_reward([ndim |-> 2, v |-> m], rewardIsTensor,
                            sequence_length_in, lengthIsTensor, discount,
                            normalize, tensor_rank).out
      [] called = "_discount_reward_py_2d" ->
            _discount_reward_py_2d(m, sequence_length_in, discount).out
      [] called = "_discount_reward_tensor_2d" ->
            _discount_reward_tensor_2d(m, 2, sequence_length_in, discount)

\* C9: a 2D kernel given sequence_length produces the same on any two rewards
\* that agree at every position before the row's length, in both modes, on the
\* fast path and on the general path.
C9_PaddingDoesNotLeak ==
    (Done /\ Kernel2D /\ reward_in.ndim = 2 /\ sequence_length_in # None)
    => \A m \in [1..Len(reward_in.v) -> [1..Len(reward_in.v[1]) -> RewardValues]] :
          AgreesOnValid(m) => SameCallOn(m) = disc_reward

\* the general path on a reward with a nonzero entry in the padding, followed
\* by a valid row
C9_Witness ==
    /\ Done /\ called = "_discount_reward_py_2d" /\ discount = Half
    /\ sequence_length_in # None
    /\ Len(reward_in.v) = 2 /\ Len(reward_in.v[1]) = 3
    /\ sequence_length_in = <<1, 3>>
    /\ reward_in.v[1] = <<R(1), R(1), R(1)>>
    /\ disc_reward.value[1] = <<R(1), 0, 0>>

-----------------------------------------------------------------------------
(* C10: inputs are not mutated *)

\* C10: after a call of discount_reward or of a kernel, whether it returned or
\* raised, the caller's reward and sequence_length hold what they held before.
C10_InputsNotMutated ==
    Done => reward = reward_in /\ sequence_length = sequence_length_in

\* the eager general path called on its own, with no sequence_length, having
\* accumulated into its copy
C10_Witness ==
    /\ Done /\ called = "_discount_reward_py_2d" /\ discount # One
    /\ sequence_length_in = None
    /\ Len(reward_in.v[1]) >= 2
    /\ Status = "ok" /\ disc_reward.value # reward_in.v
    /\ reward = reward_in

====
